---- MODULE Spec2Model ----
(***************************************************************************)
(* The todo service of pkg/api/v1/todo-service.go: five handlers (Create,  *)
(* Read, Update, Delete, ReadAll) over one MySQL table `todo`.  Every      *)
(* handler is checkAPI, connect, defer c.Close(), one statement and the    *)
(* mapping of its result.  Handlers run concurrently (one goroutine per    *)
(* call); a call is two steps: the "Call" step runs the handler up to the  *)
(* point where it holds a connection and is about to send its statement,   *)
(* the "Exec" step is the statement (atomic in the storage engine), the    *)
(* mapping of its result and the deferred release of the connection.       *)
(***************************************************************************)
EXTENDS Integers, Sequences, FiniteSets

\* ------------------------------------------------------------------ bounds
NProcs == 2           \* handlers that may be in flight at once
MaxId == 2            \* AUTO_INCREMENT values the model lets the table hand out
BaseSeconds == 100    \* the seconds field of every reminder the model sends

Procs == 1..NProcs

\* ------------------------------------------------------------- constants
apiVersion == "v1"
NanosPerSecond == 1000000000
HalfSecond == 500000000

\* --------------------------------------------------------------- requests
Apis == {"", "v1", "v2"}
NanosValues == {-1, 0, HalfSecond, NanosPerSecond}

\* *timestamp.Timestamp: nil, or seconds and nanos as sent (not validated)
NilTimestamp == [nil |-> TRUE, seconds |-> 0, nanos |-> 0]
Stamp(n) == [nil |-> FALSE, seconds |-> BaseSeconds, nanos |-> n]
Timestamps == {NilTimestamp} \cup {Stamp(n) : n \in NanosValues}

\* the title, description and reminder a request carries: two well-formed
\* tasks that differ in every field, and three with a reminder that
\* ptypes.Timestamp does not convert
Fields(title, description, reminder) ==
    [title |-> title, description |-> description, reminder |-> reminder]
Payloads == {Fields("t1", "d1", Stamp(0)), Fields("t2", "d2", Stamp(HalfSecond)),
             Fields("t1", "d1", NilTimestamp), Fields("t1", "d2", Stamp(-1)),
             Fields("t2", "d1", Stamp(NanosPerSecond))}

\* *Todo: nil (a request without the todo field), or the four fields
NilTodo == [nil |-> TRUE, id |-> 0, title |-> "", description |-> "", reminder |-> NilTimestamp]
Todos(idSet) == {NilTodo} \cup
    {[nil |-> FALSE, id |-> i, title |-> x.title, description |-> x.description,
      reminder |-> x.reminder] : i \in idSet, x \in Payloads}

ReqIds == 1..MaxId

Request(op, a, i, t) == [op |-> op, api |-> a, id |-> i, todo |-> t]

\* the requests the model sends: every version with every id and payload,
\* except that the empty version goes with the first id and payload only
Sent(r) ==
    r.api = "" => /\ r.id <= 1
                  /\ r.todo.nil \/ (r.todo.id <= 1 /\ r.todo.reminder = Stamp(0))

Requests(op, idSet, todoSet) ==
    {r \in {Request(op, a, i, t) : a \in Apis, i \in idSet, t \in todoSet} : Sent(r)}

CreateRequests == Requests("Create", {0}, Todos({0}))
ReadRequests == Requests("Read", ReqIds, {NilTodo})
UpdateRequests == Requests("Update", {0}, Todos(ReqIds))
DeleteRequests == Requests("Delete", ReqIds, {NilTodo})
ReadAllRequests == Requests("ReadAll", {0}, {NilTodo})
NoRequest == [op |-> "none", api |-> "", id |-> 0, todo |-> NilTodo]

\* -------------------------------------------------------------- responses
NoResp == [nil |-> TRUE]
CreateResponse(i) == [nil |-> FALSE, api |-> apiVersion, id |-> i]
ReadResponse(td) == [nil |-> FALSE, api |-> apiVersion, todo |-> td]
UpdateResponse(n) == [nil |-> FALSE, api |-> apiVersion, updated |-> n]
DeleteResponse(n) == [nil |-> FALSE, api |-> apiVersion, deleted |-> n]
ReadAllResponse(l) == [nil |-> FALSE, api |-> apiVersion, todos |-> l]

\* what a call comes to: (resp, err) as returned, or a panic.  A panic
\* unwinds the handler, so its deferred c.Close() runs; what the server does
\* with the panic afterwards is outside the handlers.
Return(r, e) == [resp |-> r, err |-> e, panic |-> FALSE]
Fail(code) == Return(NoResp, code)
Panic == [resp |-> NoResp, err |-> "OK", panic |-> TRUE]

VARIABLES table, nextId, fracMode, inUse, pc, req, last, ids, deleted, latest, mw, zap

service == <<table, nextId, fracMode, inUse, pc, req, last, ids, deleted, latest>>
vars == <<table, nextId, fracMode, inUse, pc, req, last, ids, deleted, latest, mw, zap>>

\* ------------------------------------------------- logging (bounds, values)
NRequests == 2        \* HTTP requests the model sends through AddLogger
MaxEntries == 2       \* entries the model logs through the global logger

\* zapcore levels, as the comment of Config.LogLevel lists them
DebugLevel == -1
InfoLevel == 0
WarnLevel == 1
ErrorLevel == 2
FatalLevel == 5
Levels == DebugLevel..FatalLevel

HttpRequests == 1..NRequests
\* values of the X-Liveness-Probe header: not sent, the probe's, another
ProbeHeaders == {"", "Healtz", "Healthz"}
NewHttpRequest == [pc |-> "new", header |-> "", tls |-> FALSE]
NoEntry == [level |-> InfoLevel, streams |-> {}, any |-> FALSE]

\* ------------------------------------------------------------------ state
\* table    : the rows of `todo`, each [id, title, description, reminder]
\* nextId   : the AUTO_INCREMENT counter of `todo`.`id`
\* fracMode : how the engine fits a fractional second into TIMESTAMP(0)
\* inUse    : connections of the pool that are checked out
\* pc, req  : per handler goroutine, where it is and the request it serves
\* last     : the call that completed last, with what it returned
\* ids      : the ids returned by successful Creates, in order (history)
\* deleted  : the ids of successful Deletes, in order (history)
\* latest   : per id created and not deleted, the fields last given to a
\*            successful Create or Update of it (history)
\* mw       : the HTTP requests passing through AddLogger, and the trace of
\*            its calls of logger.Debug and of the wrapped handler
\* zap      : the global logger of pkg/logger: whether Init has run, its
\*            level, and what was written to the two console streams

\* fmt.Sprintf of a format with `verbs` verbs: the arguments that fill them,
\* and the verbs left without one (printed as %!d(MISSING))
Sprintf(format, verbs, args) ==
    [format |-> format,
     args |-> SubSeq(args, 1, IF Len(args) < verbs THEN Len(args) ELSE verbs),
     missing |-> IF Len(args) < verbs THEN verbs - Len(args) ELSE 0]
NoMessage == Sprintf("", 0, <<>>)

NoCall == [req |-> NoRequest, out |-> Return(NoResp, "OK"), fault |-> "none",
           acq |-> 0, stmts |-> 0, meta |-> FALSE, found |-> 0,
           msg |-> NoMessage, conc |-> 0]

Init ==
    /\ table = {}
    /\ nextId = 1
    /\ fracMode \in {"round", "truncate"}
    /\ inUse = 0
    /\ pc = [p \in Procs |-> "idle"]
    /\ req = [p \in Procs |-> NoRequest]
    /\ last = NoCall
    /\ ids = <<>>
    /\ deleted = <<>>
    /\ latest = {}
    /\ mw = [reqs |-> [i \in HttpRequests |-> NewHttpRequest], trace |-> <<>>]
    /\ zap = [inited |-> FALSE, level |-> InfoLevel, stdout |-> <<>>, stderr |-> <<>>,
              logged |-> NoEntry]

\* ---------------------------------------------------------------- helpers
\* checkAPI without the test for the empty string
checkAPI_NoEmpty(api) ==
    IF apiVersion # api THEN "Unimplemented" ELSE "OK"

\* checkAPI: "" means the current version; any other string must be apiVersion
checkAPI(api) ==
    IF api # "" /\ apiVersion # api THEN "Unimplemented" ELSE "OK"

\* connect passing the failure on under another code
connect_WrongCode(connOk) == IF connOk THEN "OK" ELSE "Unavailable"

\* connect: s.db.Conn(ctx) either hands out a connection or fails
connect(connOk) == IF connOk THEN "OK" ELSE "Unknown"

\* a return that does not put the connection back
Close_Leak(n) == n

\* a connection taken from the pool, and c.Close() putting it back
Acquire(n) == n + 1
Close(n) == n - 1

\* ptypes.Timestamp: a nil timestamp and nanos outside [0, 1e9) are errors
Timestamp(ts) ==
    [err |-> ts.nil \/ ts.nanos < 0 \/ ts.nanos >= NanosPerSecond,
     t |-> [seconds |-> ts.seconds, nanos |-> ts.nanos]]

\* the value a `timestamp` column (no fractional digits) keeps of a time:
\* the driver sends the fraction and the engine rounds it, or cuts it off
\* under its truncating SQL mode
ColumnValue(t, mode) ==
    [seconds |-> IF mode = "round" /\ t.nanos >= HalfSecond THEN t.seconds + 1 ELSE t.seconds,
     nanos |-> 0]

\* ptypes.TimestampProto of a scanned time.Time
TimestampProto(t) == [nil |-> FALSE, seconds |-> t.seconds, nanos |-> t.nanos]

Row(i, title, description, reminder) ==
    [id |-> i, title |-> title, description |-> description, reminder |-> reminder]

\* the scan with two destinations exchanged
ScanTodo_Swapped(row) ==
    [nil |-> FALSE, id |-> row.id, title |-> row.description, description |-> row.title,
     reminder |-> TimestampProto(row.reminder)]

\* rows.Scan into a Todo, then td.Reminder = TimestampProto(reminder)
ScanTodo(row) ==
    [nil |-> FALSE, id |-> row.id, title |-> row.title, description |-> row.description,
     reminder |-> TimestampProto(row.reminder)]

\* an id taken from the rows that are left instead of from the counter
AutoIncrement_MaxPlusOne(counter, rows) ==
    IF rows = {} THEN 1 ELSE 1 + (CHOOSE m \in {r.id : r \in rows} : \A r \in rows : r.id <= m)

\* the id the engine gives the next inserted row
AutoIncrement(counter, rows) == counter

\* SELECT ... FROM todo where id = ?
SelectById(rows, i) == {r \in rows : r.id = i}

\* the DELETE without its WHERE clause
DeleteById_All(rows, i) == {}

\* DELETE FROM todo WHERE id = ?
DeleteById(rows, i) == {r \in rows : r.id # i}

\* the UPDATE without its WHERE clause
UpdateById_All(rows, i, title, description, reminder) ==
    {Row(r.id, title, description, reminder) : r \in rows}

\* UPDATE todo SET title = ?, description = ?, reminder = ? WHERE id = ?
UpdateById(rows, i, title, description, reminder) ==
    {IF r.id = i THEN Row(r.id, title, description, reminder) ELSE r : r \in rows}

\* the affected-row count MySQL reports for the UPDATE: the rows it changed
\* (the DSN of server.go does not ask for the rows matched)
RowsChanged(rows, i, title, description, reminder) ==
    Cardinality({r \in SelectById(rows, i) : r # Row(i, title, description, reminder)})

\* a result set as the cursor yields it, in primary-key order
RECURSIVE Cursor(_)
Cursor(rows) ==
    IF rows = {} THEN <<>>
    ELSE LET first == CHOOSE r \in rows : \A o \in rows : r.id <= o.id
         IN <<first>> \o Cursor(rows \ {first})

\* the loop of ReadAll with one Todo allocated before the loop: every entry
\* of the list is the row scanned last
ScanAll_Aliased(cursor) ==
    [k \in 1..Len(cursor) |-> ScanTodo(cursor[Len(cursor)])]

\* the loop of ReadAll: one Todo appended per row
RECURSIVE ScanAll(_)
ScanAll(cursor) ==
    IF cursor = <<>> THEN <<>> ELSE <<ScanTodo(Head(cursor))>> \o ScanAll(Tail(cursor))

InFlight(op) == Cardinality({p \in Procs : pc[p] = "connected" /\ req[p].op = op})

\* ------------------------------------------------------ the start of a call
\* Create and Update sending the reminder to the statement unchecked
ValidateTodo_NoCheck(r) ==
    IF r.todo.nil THEN Panic ELSE Return(NoResp, "proceed")

\* what Create and Update do between connect and their statement
ValidateTodo(r) ==
    IF r.todo.nil THEN Panic
    ELSE IF Timestamp(r.todo.reminder).err THEN Fail("InvalidArgument")
    ELSE Return(NoResp, "proceed")

NoValidation(r) == Return(NoResp, "proceed")

\* line 217: the NotFound message of Delete
DeleteNotFoundMessage(id) == Sprintf("Todo with ID = '%d' is not found", 1, <<id>>)

\* line 120: the NotFound message of Read, formatted without an argument
ReadNotFoundMessage(id) == Sprintf("Todo with ID='%d' is not found", 1, <<>>)

\* the message of the error a call returns
Message(r, out, fault) ==
    IF out.panic \/ out.err = "OK" THEN NoMessage
    ELSE IF out.err = "Unimplemented"
    THEN Sprintf("Unsupported API version: service implements API version '%s', but asked for '%s'",
                 2, <<apiVersion, r.api>>)
    ELSE IF out.err = "InvalidArgument" THEN Sprintf("Reminder field has invalid format -> ", 0, <<>>)
    ELSE IF out.err = "NotFound"
    THEN IF r.op = "Read" THEN ReadNotFoundMessage(r.id) ELSE DeleteNotFoundMessage(r.id)
    ELSE IF fault = "connect" THEN Sprintf("Failed to connect to database -> ", 0, <<>>)
    ELSE Sprintf("Failed to " \o r.op \o " -> ", 0, <<>>)

\* the other handlers that hold a connection for the same operation on the
\* same id, at the moment p runs its statement
Concurrent(p, r) ==
    Cardinality({q \in Procs \ {p} : pc[q] = "connected" /\ req[q].op = r.op /\ req[q].id = r.id})

Completed(p, r, out, fault, acq, stmts, meta, found) ==
    last' = [req |-> r, out |-> out, fault |-> fault,
             acq |-> acq, stmts |-> stmts, meta |-> meta, found |-> found,
             msg |-> Message(r, out, fault),
             conc |-> IF stmts = 1 /\ r.op = "Delete" THEN Concurrent(p, r) ELSE 0]

\* checkAPI, connect, defer c.Close(), and the checks before the statement
Enter(p, r, connOk, early) ==
    /\ pc[p] = "idle"
    /\ IF checkAPI(r.api) # "OK"
       THEN /\ Completed(p, r, Fail(checkAPI(r.api)), "none", 0, 0, FALSE, 0)
            /\ UNCHANGED <<inUse, pc, req>>
       ELSE IF connect(connOk) # "OK"
       THEN /\ Completed(p, r, Fail(connect(connOk)), "connect", 1, 0, FALSE, 0)
            /\ UNCHANGED <<inUse, pc, req>>
       ELSE IF early.err # "proceed"
       THEN /\ Completed(p, r, early, "none", 1, 0, FALSE, 0)
            /\ inUse' = Close(Acquire(inUse))
            /\ UNCHANGED <<pc, req>>
       ELSE /\ inUse' = Acquire(inUse)
            /\ pc' = [pc EXCEPT ![p] = "connected"]
            /\ req' = [req EXCEPT ![p] = r]
            /\ UNCHANGED last
    /\ UNCHANGED <<table, nextId, fracMode, ids, deleted, latest, mw, zap>>

\* the return of a handler that held a connection: the deferred c.Close() runs
Leave(p, out, fault, meta, found) ==
    /\ pc[p] = "connected"
    /\ Completed(p, req[p], out, fault, 1, 1, meta, found)
    /\ inUse' = Close(inUse)
    /\ pc' = [pc EXCEPT ![p] = "idle"]
    /\ req' = [req EXCEPT ![p] = NoRequest]
    /\ UNCHANGED <<fracMode, mw, zap>>

\* ------------------------------------------------------------------ Create
\* lines 54-71: up to the INSERT.  The model hands out at most MaxId ids.
CreateCall(p) ==
    /\ nextId + InFlight("Create") <= MaxId
    /\ \E r \in CreateRequests, connOk \in BOOLEAN : Enter(p, r, connOk, ValidateTodo(r))

\* lines 73-89: the INSERT, LastInsertId and the response
CreateExec(p) ==
    /\ pc[p] = "connected" /\ req[p].op = "Create"
    /\ \E execOk \in BOOLEAN :
        LET td == req[p].todo
            reminder == Timestamp(td.reminder).t
            id == AutoIncrement(nextId, table)
        IN IF ~execOk
           THEN /\ Leave(p, Fail("Unknown"), "exec", FALSE, 0)
                /\ UNCHANGED <<table, nextId, ids, deleted, latest>>
           ELSE /\ table' = table \cup {Row(id, td.title, td.description, ColumnValue(reminder, fracMode))}
                /\ nextId' = nextId + 1
                /\ Leave(p, Return(CreateResponse(id), "OK"), "none", TRUE, 1)
                /\ ids' = Append(ids, id)
                /\ UNCHANGED deleted
                /\ latest' = {l \in latest : l.id # id} \cup
                       {[id |-> id, title |-> td.title, description |-> td.description,
                         reminder |-> td.reminder, fresh |-> TRUE]}

\* -------------------------------------------------------------------- Read
ReadCall(p) ==
    \E r \in ReadRequests, connOk \in BOOLEAN : Enter(p, r, connOk, NoValidation(r))

\* lines 116-148: what Read returns for the rows its cursor yields;
\* rowsErr is rows.Err() after a first rows.Next() that returned false
ReadResult(cursor, rowsErr) ==
    IF cursor = <<>>
    THEN IF rowsErr THEN Fail("Unknown") ELSE Fail("NotFound")
    ELSE IF Len(cursor) > 1
         THEN Return(NoResp, "OK")      \* `return nil, err` with err == nil
         ELSE Return(ReadResponse(ScanTodo(cursor[1])), "OK")

\* lines 107-148: the SELECT and the mapping of its rows.  The faults are
\* those of the storage layer: the query fails, the cursor fails, or the
\* cursor yields the row twice (a table without its unique key).
ReadExec(p) ==
    /\ pc[p] = "connected" /\ req[p].op = "Read"
    /\ \E fault \in {"none", "exec", "rows", "dup"} :
        LET match == Cursor(SelectById(table, req[p].id))
            cursor == IF fault = "rows" THEN <<>>
                      ELSE IF fault = "dup" THEN match \o match
                      ELSE match
        IN /\ fault = "dup" => match # <<>>
           /\ IF fault = "exec"
              THEN Leave(p, Fail("Unknown"), fault, FALSE, 0)
              ELSE Leave(p, ReadResult(cursor, fault = "rows"), fault, FALSE, Len(cursor))
           /\ UNCHANGED <<table, nextId, ids, deleted, latest>>

\* ------------------------------------------------------------------ Update
UpdateCall(p) ==
    \E r \in UpdateRequests, connOk \in BOOLEAN : Enter(p, r, connOk, ValidateTodo(r))

\* lines 171-188: what Update returns.  The error of ExecContext is never
\* looked at: res.RowsAffected() is called on the nil result of a failed
\* statement, which is a nil-pointer panic.
UpdateResult(execOk, rows) ==
    IF ~execOk THEN Panic ELSE Return(UpdateResponse(rows), "OK")

\* lines 169-188: the UPDATE, RowsAffected and the response
UpdateExec(p) ==
    /\ pc[p] = "connected" /\ req[p].op = "Update"
    /\ \E execOk \in BOOLEAN :
        LET td == req[p].todo
            reminder == ColumnValue(Timestamp(td.reminder).t, fracMode)
            found == Cardinality(SelectById(table, td.id))
            rows == RowsChanged(table, td.id, td.title, td.description, reminder)
        IN IF ~execOk
           THEN /\ Leave(p, UpdateResult(FALSE, 0), "exec", TRUE, 0)
                /\ UNCHANGED <<table, nextId, ids, deleted, latest>>
           ELSE /\ table' = UpdateById(table, td.id, td.title, td.description, reminder)
                /\ Leave(p, UpdateResult(TRUE, rows), "none", TRUE, found)
                /\ latest' = {IF l.id = td.id
                              THEN [id |-> l.id, title |-> td.title, description |-> td.description,
                                    reminder |-> td.reminder, fresh |-> FALSE]
                              ELSE l : l \in latest}
                /\ UNCHANGED <<nextId, ids, deleted>>

\* ------------------------------------------------------------------ Delete
DeleteCall(p) ==
    \E r \in DeleteRequests, connOk \in BOOLEAN : Enter(p, r, connOk, NoValidation(r))

\* Delete mapping its count the way Update does
DeleteResult_LikeUpdate(rows) == Return(DeleteResponse(rows), "OK")

\* lines 211-223: what Delete returns for the affected-row count
DeleteResult(rows) ==
    IF rows = 0 THEN Fail("NotFound") ELSE Return(DeleteResponse(rows), "OK")

\* lines 204-223: the DELETE, RowsAffected and the response
DeleteExec(p) ==
    /\ pc[p] = "connected" /\ req[p].op = "Delete"
    /\ \E execOk \in BOOLEAN :
        LET rows == Cardinality(SelectById(table, req[p].id))
        IN IF ~execOk
           THEN /\ Leave(p, Fail("Unknown"), "exec", FALSE, 0)
                /\ UNCHANGED <<table, nextId, ids, deleted, latest>>
           ELSE /\ table' = DeleteById(table, req[p].id)
                /\ Leave(p, DeleteResult(rows), "none", TRUE, rows)
                /\ latest' = IF DeleteResult(rows).err = "OK" THEN {l \in latest : l.id # req[p].id} ELSE latest
                /\ deleted' = IF DeleteResult(rows).err = "OK" THEN Append(deleted, req[p].id) ELSE deleted
                /\ UNCHANGED <<nextId, ids>>

\* ----------------------------------------------------------------- ReadAll
ReadAllCall(p) ==
    \E r \in ReadAllRequests, connOk \in BOOLEAN : Enter(p, r, connOk, NoValidation(r))

\* lines 248-276: the loop over the rows, rows.Err() and the response
ReadAllResult(cursor, rowsErr) ==
    IF rowsErr THEN Fail("Unknown") ELSE Return(ReadAllResponse(ScanAll(cursor)), "OK")

\* lines 239-276: the SELECT of every row and the mapping of the rows
ReadAllExec(p) ==
    /\ pc[p] = "connected" /\ req[p].op = "ReadAll"
    /\ \E fault \in {"none", "exec", "rows"} :
        /\ IF fault = "exec"
           THEN Leave(p, Fail("Unknown"), fault, FALSE, 0)
           ELSE Leave(p, ReadAllResult(Cursor(table), fault = "rows"), fault, FALSE,
                      Cardinality(table))
        /\ UNCHANGED <<table, nextId, ids, deleted, latest>>

\* ---------------------------------------------------------- specification
Next ==
    \E p \in Procs :
        \/ CreateCall(p)
        \/ CreateExec(p)
        \/ ReadCall(p)
        \/ ReadExec(p)
        \/ UpdateCall(p)
        \/ UpdateExec(p)
        \/ DeleteCall(p)
        \/ DeleteExec(p)
        \/ ReadAllCall(p)
        \/ ReadAllExec(p)

Spec == Init /\ [][Next]_vars

TypeOK ==
    /\ nextId \in 1..(MaxId + 1)
    /\ inUse \in 0..NProcs
    /\ \A r \in table : r.id \in 1..MaxId

\* ------------------------------------------------------------------ claims
Accepted(r) == r.api = "" \/ r.api = apiVersion
Malformed(r) ==
    /\ r.op \in {"Create", "Update"}
    /\ ~r.todo.nil /\ ~r.todo.reminder.nil
    /\ (r.todo.reminder.nanos < 0 \/ r.todo.reminder.nanos >= NanosPerSecond)
Succeeded(c) == c.out.err = "OK" /\ ~c.out.panic /\ c.out.resp # NoResp
\* the step in which handler p runs its statement and returns
Executes(p) == pc[p] = "connected" /\ pc'[p] = "idle"

\* C1: a call is rejected with Unimplemented exactly when its version is
\* neither empty nor "v1", whatever else the request holds, and such a call
\* has acquired no connection and executed no statement.
C1_VersionGate ==
    last.req.op # "none" =>
        /\ (last.out.err = "Unimplemented") <=> ~Accepted(last.req)
        /\ ~Accepted(last.req) => last.out = Fail("Unimplemented") /\ last.acq = 0 /\ last.stmts = 0

C1_Witness ==
    /\ last.req.op = "Update" /\ last.req.api = "v2" /\ Malformed(last.req)
    /\ last.out = Fail("Unimplemented") /\ table # {}

\* C2: with a working storage, an Update that matches no row answers
\* updated = 0 without error, a Delete that matches no row fails with
\* NotFound and no response, and both leave the table as it was.
C2_NoMatchAsymmetry ==
    [][\A p \in Procs :
        (Executes(p) /\ last'.fault = "none"
            /\ SelectById(table, IF req[p].op = "Update" THEN req[p].todo.id ELSE req[p].id) = {})
        => /\ req[p].op = "Update" => last'.out = Return(UpdateResponse(0), "OK") /\ table' = table
           /\ req[p].op = "Delete" => last'.out = Fail("NotFound") /\ table' = table]_vars

C2_Witness ==
    /\ last.req.op = "Delete" /\ last.fault = "none" /\ last.stmts = 1 /\ last.found = 0
    /\ last.out = Fail("NotFound") /\ table # {}

\* C3 as stated: every Create or Update with an accepted version and a
\* malformed reminder fails with InvalidArgument, having executed nothing.
C3_MalformedAlwaysInvalidArgument ==
    (Accepted(last.req) /\ Malformed(last.req)) =>
        last.out = Fail("InvalidArgument") /\ last.stmts = 0

\* C3 as amended: such a call fails with InvalidArgument when it was given a
\* connection, and with Unknown when acquiring the connection failed (the
\* reminder is looked at after connect); either way it executes no statement
\* and the table is what it was before the call.
C3_MalformedReminder ==
    /\ [](Accepted(last.req) /\ Malformed(last.req) =>
            /\ last.stmts = 0
            /\ last.fault = "connect" => last.out = Fail("Unknown")
            /\ last.fault # "connect" => last.out = Fail("InvalidArgument") /\ last.acq = 1)
    /\ [][(pc' = pc /\ Malformed(last'.req)) => table' = table]_vars

C3_Witness ==
    /\ last.req.op = "Update" /\ Accepted(last.req) /\ Malformed(last.req)
    /\ last.out = Fail("InvalidArgument") /\ table # {}

\* C4: when the statement of a Create, Update or Delete fails, the call
\* returns an Unknown error and no response, and neither LastInsertId nor
\* RowsAffected is called on the failed result.
C4_WriteFailureIsUnknown ==
    (last.req.op \in {"Create", "Update", "Delete"} /\ last.fault = "exec") =>
        last.out = Fail("Unknown") /\ ~last.meta

\* C5: when the cursor of Read yields a further row after the first, Read
\* fails with an Unknown error and returns no task.
C5_MultipleRowsIsUnknown ==
    (last.req.op = "Read" /\ last.found > 1) => last.out = Fail("Unknown")

\* the ids of the tasks created and not deleted, and those still as created
Live == {l.id : l \in latest}
Fresh == {l.id : l \in {x \in latest : x.fresh}}
Given(i) == CHOOSE l \in latest : l.id = i
AsGiven(l) ==
    [nil |-> FALSE, id |-> l.id, title |-> l.title, description |-> l.description,
     reminder |-> l.reminder]
\* a stored reminder is the given one brought to whole seconds
WholeSeconds(stored, given) ==
    /\ ~stored.nil /\ stored.nanos = 0
    /\ stored.seconds \in {given.seconds, given.seconds + 1}
    /\ stored.seconds = given.seconds + 1 => given.nanos >= HalfSecond
    /\ given.nanos = 0 => stored = given
SameTask(td, l) ==
    /\ td.id = l.id /\ td.title = l.title /\ td.description = l.description
    /\ WholeSeconds(td.reminder, l.reminder)

\* C6 as stated: a Read that follows the Create of its id, with no Update
\* or Delete of it in between, yields the id and exactly the title,
\* description and reminder given to Create.
C6_RoundTripExact ==
    (last.req.op = "Read" /\ Succeeded(last) /\ last.req.id \in Fresh) =>
        last.out.resp.todo = AsGiven(Given(last.req.id))

\* C6 as amended: it yields the id, the title and the description given to
\* Create, and the reminder given to Create brought to whole seconds (the
\* precision of the column): the same reminder when it has no fraction.
C6_RoundTrip ==
    (last.req.op = "Read" /\ Succeeded(last) /\ last.req.id \in Fresh) =>
        /\ last.out.resp.api = apiVersion
        /\ SameTask(last.out.resp.todo, Given(last.req.id))

C6_Witness ==
    /\ last.req.op = "Read" /\ Succeeded(last) /\ last.req.id \in Fresh
    /\ Given(last.req.id).reminder.nanos = HalfSecond
    /\ last.out.resp.todo.title = "t2"

\* what a successful ReadAll returns, as a set
Returned == {last.out.resp.todos[k] : k \in 1..Len(last.out.resp.todos)}

\* C7 as stated: a successful ReadAll returns the tasks created and not
\* deleted, each once, with the fields last given to Create or Update:
\* N - M tasks after N successful Creates and M successful Deletes.
C7_ReadAllExact ==
    (last.req.op = "ReadAll" /\ Succeeded(last)) =>
        /\ Len(last.out.resp.todos) = Len(ids) - Len(deleted)
        /\ Cardinality(Returned) = Len(last.out.resp.todos)
        /\ Returned = {AsGiven(l) : l \in latest}

\* C7 as amended: the same, with each reminder brought to whole seconds.
C7_ReadAll ==
    (last.req.op = "ReadAll" /\ Succeeded(last)) =>
        /\ Len(last.out.resp.todos) = Len(ids) - Len(deleted)
        /\ Cardinality(Returned) = Len(last.out.resp.todos)
        /\ {td.id : td \in Returned} = Live
        /\ \A td \in Returned : SameTask(td, Given(td.id))

C7_Witness ==
    /\ last.req.op = "ReadAll" /\ Succeeded(last)
    /\ Len(ids) = 2 /\ Len(deleted) = 1 /\ Len(last.out.resp.todos) = 1
    /\ \E l \in latest : ~l.fresh

\* C8: with an accepted version and a working storage, Read(id) succeeds
\* iff id was returned by a successful Create and no Delete(id) has
\* succeeded since, and fails with NotFound otherwise: in particular every
\* Read(id) after a successful Delete(id).
C8_ReadableUntilDeleted ==
    (last.req.op = "Read" /\ last.stmts = 1 /\ last.fault = "none") =>
        /\ Succeeded(last) <=> last.req.id \in Live
        /\ Succeeded(last) => last.out.resp.todo.id = last.req.id
        /\ last.req.id \notin Live => last.out = Fail("NotFound")
        /\ (\E k \in 1..Len(deleted) : deleted[k] = last.req.id) => last.out = Fail("NotFound")

C8_Witness ==
    /\ last.req.op = "Read" /\ last.stmts = 1 /\ last.fault = "none"
    /\ \E k \in 1..Len(deleted) : deleted[k] = last.req.id
    /\ last.out = Fail("NotFound") /\ Live # {}

\* C9: a call acquires at most one connection and gives it back on every
\* way out: the connections checked out are those of the handlers that are
\* past connect and have not returned, none when no handler is running.
C9_ConnectionsReleased ==
    /\ inUse = Cardinality({p \in Procs : pc[p] = "connected"})
    /\ (\A p \in Procs : pc[p] = "idle") => inUse = 0
    /\ last.acq <= 1

C9_Witness ==
    /\ last.out.panic /\ last.stmts = 1 /\ last.fault = "exec"
    /\ inUse = 1 /\ \E p \in Procs : pc[p] = "connected"

\* C10: no two successful Creates return the same id, deleted tasks' ids
\* included.
C10_IdsNeverReused ==
    \A j, k \in 1..Len(ids) : j # k => ids[j] # ids[k]

C10_Witness ==
    /\ Len(ids) = 2 /\ Len(deleted) >= 1
    /\ deleted[1] = ids[1] /\ ids[2] \in Live


\* C11: every completed call returns either a response and no error, or one
\* of the four typed errors and no response: never both, never neither,
\* and it never panics.
C11_ResponseXorError ==
    last.req.op # "none" =>
        /\ ~last.out.panic
        /\ \/ last.out.err = "OK" /\ last.out.resp # NoResp
           \/ /\ last.out.err \in {"InvalidArgument", "NotFound", "Unimplemented", "Unknown"}
              /\ last.out.resp = NoResp

\* C12: when acquiring the connection fails, the call returns Unknown after
\* that one attempt, executes no statement and leaves the table as it was.
C12_ConnectFailure ==
    /\ [](last.fault = "connect" =>
            /\ Accepted(last.req)
            /\ last.out = Fail("Unknown")
            /\ last.acq = 1 /\ last.stmts = 0)
    /\ [][(pc' = pc /\ last'.fault = "connect") => (table' = table /\ inUse' = inUse)]_vars

C12_Witness ==
    /\ last.fault = "connect" /\ last.req.op = "Delete" /\ last.out = Fail("Unknown")
    /\ \E r \in table : r.id = last.req.id


\* C13: when Read finds no row, its NotFound error names the requested id:
\* the id of the request is among the values printed in the message.
C13_NotFoundNamesId ==
    (last.req.op = "Read" /\ last.out = Fail("NotFound")) =>
        /\ last.msg.missing = 0
        /\ \E k \in 1..Len(last.msg.args) : last.msg.args[k] = last.req.id

\* C14: a Create with an accepted version whose task has no reminder, on a
\* working storage, is not rejected: it inserts a row and returns its id.
C14_ReminderOptional ==
    (/\ last.req.op = "Create" /\ Accepted(last.req) /\ last.fault = "none"
     /\ ~last.req.todo.nil /\ last.req.todo.reminder.nil) =>
        /\ last.out.err # "InvalidArgument"
        /\ Succeeded(last) /\ last.stmts = 1


\* the ids of the rows of a table, and its rows other than those of id i
RowIds(rows) == {r.id : r \in rows}
Others(rows, i) == {r \in rows : r.id # i}

\* C16: a call changes at most the row it targets.  A call that returns
\* before its statement, Read and ReadAll leave the table as it was; a
\* successful Create adds one row under a new id and nothing else; Update
\* leaves the ids and every row of another id as they were; Delete takes
\* away the rows of its id and nothing else; a call that fails leaves the
\* table as it was.
C16_Frame ==
    [][/\ pc' = pc => table' = table
       /\ \A p \in Procs : Executes(p) =>
            /\ req[p].op \in {"Read", "ReadAll"} => table' = table
            /\ req[p].op = "Create" =>
                 IF Succeeded(last')
                 THEN /\ last'.out.resp.id \notin RowIds(table)
                      /\ Others(table', last'.out.resp.id) = table
                      /\ Cardinality(table') = Cardinality(table) + 1
                 ELSE table' = table
            /\ req[p].op = "Update" =>
                 /\ RowIds(table') = RowIds(table)
                 /\ Others(table', req[p].todo.id) = Others(table, req[p].todo.id)
                 /\ ~Succeeded(last') => table' = table
            /\ req[p].op = "Delete" =>
                 IF Succeeded(last')
                 THEN table' = Others(table, req[p].id)
                 ELSE table' = table]_vars

C16_Witness ==
    /\ last.req.op = "Update" /\ Succeeded(last) /\ last.out.resp.updated = 1
    /\ Cardinality(table) = 2
    /\ \E r \in table : r.id = last.req.todo.id /\ r.title = last.req.todo.title
    /\ \E r \in table : r.id # last.req.todo.id /\ r.title # last.req.todo.title


\* C17: of the Deletes of one id that run on connections of their own, the
\* one whose statement finds the row succeeds and reports deleted = 1, and
\* every other one fails with NotFound: no id is deleted successfully twice
\* and no successful Delete reports another count than 1.
C17_OneDeleteWins ==
    /\ [](/\ \A j, k \in 1..Len(deleted) : j # k => deleted[j] # deleted[k]
          /\ (last.req.op = "Delete" /\ Succeeded(last)) => last.out.resp = DeleteResponse(1)
          /\ (last.req.op = "Delete" /\ last.stmts = 1 /\ last.fault = "none" /\ ~Succeeded(last))
                => last.out = Fail("NotFound"))
    /\ [][\A p \in Procs :
            (Executes(p) /\ req[p].op = "Delete" /\ last'.fault = "none") =>
                (Succeeded(last') <=> req[p].id \in RowIds(table))]_vars

C17_Witness ==
    /\ last.req.op = "Delete" /\ Succeeded(last) /\ last.conc = 1
    /\ \E p \in Procs : pc[p] = "connected" /\ req[p].op = "Delete" /\ req[p].id = last.req.id
    /\ table # {}


\* --------------------------------------------- AddLogger (HTTP middleware)
\* line 23: the request carries the liveness probe's header
IsProbe(header) == header = "Healtz"

\* lines 31-34: the scheme logged for the request
Scheme(tls) == IF tls THEN "https" ELSE "http"

\* the bypass without its `return`: the closure goes on after the handler
BypassReturn_FallThrough == "logging"

\* line 25: the `return` of the bypass, after the wrapped handler
BypassReturn == "done"

Event(kind, i, r) == [kind |-> kind, req |-> i, scheme |-> Scheme(r.tls)]

\* lines 20-51: a request enters the closure; unless it is a probe, the
\* fields are prepared and "request started" is logged
MwBegin(i) ==
    /\ mw.reqs[i].pc = "new"
    /\ \E h \in ProbeHeaders, tls \in BOOLEAN :
        LET r == [pc |-> IF IsProbe(h) THEN "bypass" ELSE "logging", header |-> h, tls |-> tls]
        IN mw' = [reqs |-> [mw.reqs EXCEPT ![i] = r],
                  trace |-> IF IsProbe(h) THEN mw.trace
                            ELSE Append(mw.trace, Event("started", i, r))]
    /\ UNCHANGED <<service, zap>>

\* lines 24 and 55: h.ServeHTTP(w, r), which returns or panics
MwServe(i) ==
    /\ mw.reqs[i].pc \in {"bypass", "logging"}
    /\ \E returns \in BOOLEAN :
        LET r == mw.reqs[i]
            to == IF ~returns THEN "aborted"
                  ELSE IF r.pc = "bypass" THEN BypassReturn ELSE "served"
        IN mw' = [reqs |-> [mw.reqs EXCEPT ![i].pc = to],
                  trace |-> Append(mw.trace, Event("serve", i, r))]
    /\ UNCHANGED <<service, zap>>

\* lines 57-67: "request completed" is logged and the closure returns
MwEnd(i) ==
    /\ mw.reqs[i].pc = "served"
    /\ mw' = [reqs |-> [mw.reqs EXCEPT ![i].pc = "done"],
              trace |-> Append(mw.trace, Event("completed", i, mw.reqs[i]))]
    /\ UNCHANGED <<service, zap>>

WebNext ==
    \E i \in HttpRequests :
        \/ MwBegin(i)
        \/ MwServe(i)
        \/ MwEnd(i)

WebSpec == Init /\ [][WebNext]_vars

\* ------------------------------------------------- logger.Init, logger.Log
\* lines 33-35: the enabler of the core that writes to stderr
highPriority(lvl, globalLevel) == lvl >= globalLevel /\ lvl < ErrorLevel

\* lines 37-39: the enabler of the core that writes to stdout
lowPriority(lvl, globalLevel) == lvl >= globalLevel /\ lvl < ErrorLevel

\* lines 54-57: the tee of the two cores writes an entry to the streams of
\* the cores enabled for its level
Write(z, lvl) ==
    LET streams == (IF highPriority(lvl, z.level) THEN {"stderr"} ELSE {}) \cup
                   (IF lowPriority(lvl, z.level) THEN {"stdout"} ELSE {})
    IN [z EXCEPT !.stderr = IF "stderr" \in streams THEN Append(@, lvl) ELSE @,
                 !.stdout = IF "stdout" \in streams THEN Append(@, lvl) ELSE @,
                 !.logged = [level |-> lvl, streams |-> streams, any |-> TRUE]]

\* lines 27-68: Init runs its body once; without a time format it logs a
\* warning through the logger it has just built
LoggerInit(lvl, timeFormat) ==
    /\ zap' = IF zap.inited THEN zap
              ELSE LET z == [zap EXCEPT !.inited = TRUE, !.level = lvl]
                   IN IF timeFormat THEN z ELSE Write(z, WarnLevel)
    /\ UNCHANGED <<service, mw>>

\* an entry logged through logger.Log at level lvl
LogEntry(lvl) ==
    /\ zap.inited
    /\ Len(zap.stdout) < MaxEntries /\ Len(zap.stderr) < MaxEntries
    /\ zap' = Write(zap, lvl)
    /\ UNCHANGED <<service, mw>>

LogNext ==
    \/ \E lvl \in Levels, timeFormat \in BOOLEAN : LoggerInit(lvl, timeFormat)
    \/ \E lvl \in Levels : LogEntry(lvl)

LogSpec == Init /\ [][LogNext]_vars

\* ------------------------------------------------------ claims on logging
\* the positions of the trace that hold an event of this kind of request i
At(kind, i) == {k \in 1..Len(mw.trace) : mw.trace[k].kind = kind /\ mw.trace[k].req = i}
Before(K, L) == \A k \in K, l \in L : k < l

\* C15: the wrapped handler is invoked exactly once for every request, with
\* or without the probe's header; "request started" is logged once before
\* it and "request completed" once after it has returned iff the request
\* does not carry the header, and neither is logged when it does.
C15_ProbeBypassesLoggingOnly ==
    \A i \in HttpRequests :
        LET r == mw.reqs[i]
            logs == IF r.header = "Healtz" THEN 0 ELSE 1
        IN /\ Cardinality(At("serve", i)) <= 1
           /\ Before(At("started", i), At("serve", i))
           /\ Before(At("serve", i), At("completed", i))
           /\ r.pc \in {"served", "done", "aborted"} =>
                /\ Cardinality(At("serve", i)) = 1
                /\ Cardinality(At("started", i)) = logs
           /\ Cardinality(At("completed", i)) = IF r.pc = "done" THEN logs ELSE 0

C15_Witness ==
    /\ \E i \in HttpRequests :
        /\ mw.reqs[i].pc = "done" /\ mw.reqs[i].header = "Healtz"
        /\ Cardinality(At("serve", i)) = 1 /\ At("started", i) = {} /\ At("completed", i) = {}
    /\ \E i \in HttpRequests :
        /\ mw.reqs[i].pc = "done" /\ mw.reqs[i].header = ""
        /\ Cardinality(At("completed", i)) = 1

\* C18: after Init(lvl), an entry logged at level L is written to the
\* console iff L >= lvl: in particular every entry at Error and above.
C18_LevelThreshold ==
    (zap.inited /\ zap.logged.any) =>
        (zap.logged.streams # {} <=> zap.logged.level >= zap.level)

====
